---- MODULE Spec2Model ----
(***************************************************************************)
(* Model of the Alfresco tag applicator:                                   *)
(*   services/tag_service.py       per-tag strategy (one POST per tag)     *)
(*   services/tag_service_bulk.py  bulk strategy (one GET, at most one     *)
(*                                 POST carrying the missing tags)         *)
(*                                                                         *)
(* Each strategy is a client that talks to its own copy of the remote      *)
(* repository ("world").  A world holds the remote tag sets per node id,   *)
(* the client's locals and program position, and the requests put on the   *)
(* wire by the current invocation.  Under Spec one strategy is active;     *)
(* under SpecBoth the two strategies run side by side from the same        *)
(* inputs, the same initial remote state and the same remote policy.       *)
(*                                                                         *)
(* The remote is the environment.  What the model assumes of it:           *)
(*   - a POST answered 2xx has attached every tag of its payload;          *)
(*   - a POST answered 409 or 4xx/5xx was rejected: nothing is attached;   *)
(*   - 409 is only ever answered when a tag of the payload is already on   *)
(*     the node (a "strict" remote always answers 409 then);               *)
(*   - a request that times out may or may not have been carried out;      *)
(*   - a GET answered 200 lists exactly the tags on the node;              *)
(*   - other actors only ever add tags;                                    *)
(*   - a tag repeated within one payload is attached once, without 409.    *)
(***************************************************************************)
EXTENDS Naturals, Sequences, FiniteSets, TLC

VARIABLES
    node_ref,    \* argument of apply_tags: the node reference (a string)
    tags,        \* argument of apply_tags: the tag list
    policy,      \* how the remote answers (fixed for a behaviour)
    remote,      \* remote[s][n]: the tags on node n in the world of strategy s
    baseline,    \* baseline[s][n]: what remote[s][n] would be had the current
                 \* invocation issued no request (start state plus other actors' adds)
    pc,          \* pc[s]: position of the client of strategy s
    node_id,     \* node_id[s]: local of apply_tags
    idx,         \* position of `for tag in tags` (per-tag strategy)
    existing,    \* local of apply_tags (bulk strategy)
    to_add,      \* local of apply_tags (bulk strategy)
    reqs,        \* reqs[s]: the requests issued by the current invocation, in order,
                 \* each with the response r it got
    calls,       \* calls[s]: invocations of apply_tags started so far
    faultsLeft,  \* faultsLeft[s]: transient faults the remote may still produce
    othersLeft   \* othersLeft[s]: adds other actors may still perform

vars == <<node_ref, tags, policy, remote, baseline, pc, node_id, idx, existing,
          to_add, reqs, calls, faultsLeft, othersLeft>>

----------------------------------------------------------------------------
(* Bounds *)

MaxLen == 3
MaxCalls == 2
MaxFaults == 1
MaxOthers == 1

Tags == {"a", "b"}
Strategy == {"pertag", "bulk"}

\* Node references, as strings of characters: "s/x", "s//y" and "x" (no separator).
NodeRefs == { <<"s", "/", "x">>, <<"s", "/", "/", "y">>, <<"x">> }
NodeIds == { <<"x">>, <<"y">> }

\* The node the reference designates: the part after its last separator
\* (one character long for every reference of NodeRefs).
Document == << node_ref[Len(node_ref)] >>

RECURSIVE SeqsUpTo(_)
SeqsUpTo(n) ==
    IF n = 0 THEN { <<>> }
    ELSE SeqsUpTo(n - 1) \cup
         { Append(q, t) : q \in { p \in SeqsUpTo(n - 1) : Len(p) = n - 1 }, t \in Tags }

TagLists == SeqsUpTo(MaxLen)

Range(q) == { q[k] : k \in 1..Len(q) }

----------------------------------------------------------------------------
(* The HTTP layer *)

\* What requests.get / requests.post hands back: a response with its status
\* code, or nothing when timeout=10 elapses (requests raises instead).
Response(sc) == [arrived |-> TRUE, status |-> sc]
NoResponse == [arrived |-> FALSE, status |-> 0]

\* requests.Response.raise_for_status: raises for 4xx and 5xx, returns otherwise.
raise_for_status(sc) == sc >= 400 /\ sc < 600

\* str.split("/"): the segments between the separators.
RECURSIVE split(_)
split(str) ==
    IF \A k \in 1..Len(str) : str[k] # "/" THEN << str >>
    ELSE LET k == CHOOSE j \in 1..Len(str) :
                      str[j] = "/" /\ \A m \in 1..(j - 1) : str[m] # "/"
         IN  << SubSeq(str, 1, k - 1) >> \o split(SubSeq(str, k + 1, Len(str)))

\* node_ref.split("/")[-1]
_extract_node_id(ref) == split(ref)[Len(split(ref))]

\* Answers the remote may give to POST nodes/{n}/tags with `payload` (a tag list):
\* the response and the set of tags the request attached.
PostResponses(s, n, payload) ==
    LET new == Range(payload)
        planned ==
            IF new \cap policy.reject # {}
            THEN { [r |-> Response(400), applied |-> {}] }
            ELSE IF policy.strict /\ new \cap remote[s][n] # {}
            THEN { [r |-> Response(409), applied |-> {}] }
            ELSE { [r |-> Response(c), applied |-> new] : c \in {200, 201, 204} }
        transient ==
            IF faultsLeft[s] > 0
            THEN { [r |-> Response(500), applied |-> {}],
                   [r |-> NoResponse, applied |-> {}],
                   [r |-> NoResponse, applied |-> new] }
            ELSE {}
    IN  planned \cup transient

\* Answers the remote may give to GET nodes/{n}/tags: the response and the
\* tags its body lists.
GetResponses(s, n) ==
    LET planned ==
            IF policy.getOk
            THEN { [r |-> Response(200), entries |-> remote[s][n]] }
            ELSE { [r |-> Response(503), entries |-> {}] }
        transient ==
            IF faultsLeft[s] > 0
            THEN { [r |-> Response(500), entries |-> {}],
                   [r |-> NoResponse, entries |-> {}] }
            ELSE {}
    IN  planned \cup transient

\* A transient fault: an answer the remote's policy does not account for.
IsFault(resp) == ~resp.r.arrived \/ resp.r.status = 500

\* requests.post(url, json=payload, ...) with the response r it returned.
PostRequest(n, payload, resp) ==
    [method |-> "POST", node |-> n, payload |-> payload, r |-> resp.r, body |-> {}]

\* requests.get(url, ...) with the response r it returned; body: the tags r.json() lists.
GetRequest(n, resp) ==
    [method |-> "GET", node |-> n, payload |-> <<>>, r |-> resp.r, body |-> resp.entries]

\* The remote after it has carried out a POST that attached `applied` to node n.
Attach(s, n, applied) ==
    [remote EXCEPT ![s] = [@ EXCEPT ![n] = @ \cup applied]]

----------------------------------------------------------------------------
(* apply_tags, entry (both strategies) *)

\* Call without the early return on an empty list: the loop of the per-tag
\* strategy has nothing to do, the bulk strategy goes on to its read.
Call_NoEarlyReturn(s) ==
    /\ pc[s] \in {"idle", "returned", "raised"}
    /\ calls[s] < MaxCalls
    /\ calls' = [calls EXCEPT ![s] = @ + 1]
    /\ reqs' = [reqs EXCEPT ![s] = <<>>]
    /\ baseline' = [baseline EXCEPT ![s] = remote[s]]
    /\ idx' = IF s = "pertag" THEN 1 ELSE idx
    /\ existing' = IF s = "bulk" THEN {} ELSE existing
    /\ to_add' = IF s = "bulk" THEN <<>> ELSE to_add
    /\ node_id' = [node_id EXCEPT ![s] = _extract_node_id(node_ref)]
    /\ pc' = [pc EXCEPT ![s] =
                  IF s = "bulk" THEN "get"
                  ELSE IF tags = <<>> THEN "returned" ELSE "loop"]
    /\ UNCHANGED <<node_ref, tags, policy, remote, faultsLeft, othersLeft>>

\* `if not tags: return`, then node_id = self._extract_node_id(node_ref)
Call(s) ==
    /\ pc[s] \in {"idle", "returned", "raised"}
    /\ calls[s] < MaxCalls
    /\ calls' = [calls EXCEPT ![s] = @ + 1]
    /\ reqs' = [reqs EXCEPT ![s] = <<>>]
    /\ baseline' = [baseline EXCEPT ![s] = remote[s]]
    /\ idx' = IF s = "pertag" THEN 1 ELSE idx
    /\ existing' = IF s = "bulk" THEN {} ELSE existing
    /\ to_add' = IF s = "bulk" THEN <<>> ELSE to_add
    /\ IF tags = <<>>
       THEN /\ pc' = [pc EXCEPT ![s] = "returned"]
            /\ UNCHANGED node_id
       ELSE /\ node_id' = [node_id EXCEPT ![s] = _extract_node_id(node_ref)]
            /\ pc' = [pc EXCEPT ![s] = IF s = "pertag" THEN "loop" ELSE "get"]
    /\ UNCHANGED <<node_ref, tags, policy, remote, faultsLeft, othersLeft>>

----------------------------------------------------------------------------
(* Per-tag strategy: services/tag_service.py *)

\* add_tag_verdict with 409 left out of the success tuple.
add_tag_verdict_Conflict(resp) ==
    IF ~resp.arrived THEN "raise"
    ELSE IF resp.status \in {200, 201} THEN "ok"
    ELSE IF raise_for_status(resp.status) THEN "raise"
    ELSE "fallthrough"

\* What _add_tag does with a response: "ok" (logged, return), "raise", or
\* "fallthrough" (raise_for_status returns and the function ends, returning None).
add_tag_verdict(resp) ==
    IF ~resp.arrived THEN "raise"
    ELSE IF resp.status \in {200, 201, 409} THEN "ok"
    ELSE IF raise_for_status(resp.status) THEN "raise"
    ELSE "fallthrough"

\* AddTag with the failure of a tag caught: the loop goes on to the next tag
\* and the invocation raises after the last one.
AddTag_NoAbort ==
    /\ pc["pertag"] \in {"loop", "failing"}
    /\ \E resp \in PostResponses("pertag", node_id["pertag"], << tags[idx] >>) :
        /\ reqs' = [reqs EXCEPT !["pertag"] =
                        Append(@, PostRequest(node_id["pertag"], << tags[idx] >>, resp))]
        /\ remote' = Attach("pertag", node_id["pertag"], resp.applied)
        /\ faultsLeft' = [faultsLeft EXCEPT !["pertag"] = IF IsFault(resp) THEN @ - 1 ELSE @]
        /\ idx' = idx + 1
        /\ LET failed == pc["pertag"] = "failing" \/ add_tag_verdict(resp.r) = "raise"
           IN  pc' = [pc EXCEPT !["pertag"] =
                          IF idx < Len(tags) THEN (IF failed THEN "failing" ELSE "loop")
                          ELSE IF failed THEN "raised" ELSE "returned"]
    /\ UNCHANGED <<node_ref, tags, policy, baseline, node_id, existing, to_add,
                   calls, othersLeft>>

\* AddTag with one retry: a create call that raises is issued once more.
AddTag_Retry ==
    /\ pc["pertag"] = "loop"
    /\ \E resp \in PostResponses("pertag", node_id["pertag"], << tags[idx] >>) :
        /\ reqs' = [reqs EXCEPT !["pertag"] =
                        Append(@, PostRequest(node_id["pertag"], << tags[idx] >>, resp))]
        /\ remote' = Attach("pertag", node_id["pertag"], resp.applied)
        /\ faultsLeft' = [faultsLeft EXCEPT !["pertag"] = IF IsFault(resp) THEN @ - 1 ELSE @]
        /\ IF add_tag_verdict(resp.r) = "raise"
           THEN /\ pc' = [pc EXCEPT !["pertag"] =
                              IF Len(reqs["pertag"]) < idx THEN "loop" ELSE "raised"]
                /\ UNCHANGED idx
           ELSE /\ idx' = idx + 1
                /\ pc' = [pc EXCEPT !["pertag"] =
                              IF idx = Len(tags) THEN "returned" ELSE "loop"]
    /\ UNCHANGED <<node_ref, tags, policy, baseline, node_id, existing, to_add,
                   calls, othersLeft>>

\* One iteration of `for tag in tags: self._add_tag(node_id, tag)`.
AddTag ==
    /\ pc["pertag"] = "loop"
    /\ \E resp \in PostResponses("pertag", node_id["pertag"], << tags[idx] >>) :
        /\ reqs' = [reqs EXCEPT !["pertag"] =
                        Append(@, PostRequest(node_id["pertag"], << tags[idx] >>, resp))]
        /\ remote' = Attach("pertag", node_id["pertag"], resp.applied)
        /\ faultsLeft' = [faultsLeft EXCEPT !["pertag"] = IF IsFault(resp) THEN @ - 1 ELSE @]
        /\ IF add_tag_verdict(resp.r) = "raise"
           THEN /\ pc' = [pc EXCEPT !["pertag"] = "raised"]
                /\ UNCHANGED idx
           ELSE /\ idx' = idx + 1
                /\ pc' = [pc EXCEPT !["pertag"] =
                              IF idx = Len(tags) THEN "returned" ELSE "loop"]
    /\ UNCHANGED <<node_ref, tags, policy, baseline, node_id, existing, to_add,
                   calls, othersLeft>>

----------------------------------------------------------------------------
(* Bulk strategy: services/tag_service_bulk.py *)

\* missing that also drops the repetitions of a tag within the input.
RECURSIVE missing_Dedup(_, _)
missing_Dedup(ts, ex) ==
    IF ts = <<>> THEN <<>>
    ELSE IF Head(ts) \in ex THEN missing_Dedup(Tail(ts), ex)
    ELSE << Head(ts) >> \o missing_Dedup(Tail(ts), ex \cup {Head(ts)})

\* missing without the diff: every input tag is sent.
missing_All(ts, ex) == ts

\* [t for t in tags if t not in existing]
RECURSIVE missing(_, _)
missing(ts, ex) ==
    IF ts = <<>> THEN <<>>
    ELSE IF Head(ts) \in ex THEN missing(Tail(ts), ex)
    ELSE << Head(ts) >> \o missing(Tail(ts), ex)

\* get_existing_tags_raises without r.raise_for_status().
get_existing_tags_raises_TimeoutOnly(resp) == ~resp.arrived

\* Whether _get_existing_tags raises: requests.get timed out, or r.raise_for_status().
get_existing_tags_raises(resp) == ~resp.arrived \/ raise_for_status(resp.status)

\* GetExistingTags without the short-circuit `if not to_add: return`.
GetExistingTags_NoShortCircuit ==
    /\ pc["bulk"] = "get"
    /\ \E resp \in GetResponses("bulk", node_id["bulk"]) :
        /\ reqs' = [reqs EXCEPT !["bulk"] = Append(@, GetRequest(node_id["bulk"], resp))]
        /\ faultsLeft' = [faultsLeft EXCEPT !["bulk"] = IF IsFault(resp) THEN @ - 1 ELSE @]
        /\ IF get_existing_tags_raises(resp.r)
           THEN /\ pc' = [pc EXCEPT !["bulk"] = "raised"]
                /\ UNCHANGED <<existing, to_add>>
           ELSE /\ existing' = resp.entries
                /\ to_add' = missing(tags, resp.entries)
                /\ pc' = [pc EXCEPT !["bulk"] = "post"]
    /\ UNCHANGED <<node_ref, tags, policy, remote, baseline, node_id, idx, calls, othersLeft>>

\* existing = set(self._get_existing_tags(node_id)), then the diff and the
\* short-circuit `if not to_add: return`.
GetExistingTags ==
    /\ pc["bulk"] = "get"
    /\ \E resp \in GetResponses("bulk", node_id["bulk"]) :
        /\ reqs' = [reqs EXCEPT !["bulk"] = Append(@, GetRequest(node_id["bulk"], resp))]
        /\ faultsLeft' = [faultsLeft EXCEPT !["bulk"] = IF IsFault(resp) THEN @ - 1 ELSE @]
        /\ IF get_existing_tags_raises(resp.r)
           THEN /\ pc' = [pc EXCEPT !["bulk"] = "raised"]
                /\ UNCHANGED <<existing, to_add>>
           ELSE /\ existing' = resp.entries
                /\ to_add' = missing(tags, resp.entries)
                /\ pc' = [pc EXCEPT !["bulk"] =
                              IF missing(tags, resp.entries) = <<>> THEN "returned" ELSE "post"]
    /\ UNCHANGED <<node_ref, tags, policy, remote, baseline, node_id, idx, calls, othersLeft>>

\* What _add_tags_bulk does with a response.
add_tags_bulk_verdict(resp) ==
    IF ~resp.arrived THEN "raise"
    ELSE IF resp.status \in {200, 201} THEN "ok"
    ELSE IF resp.status = 409 THEN "ok"
    ELSE IF raise_for_status(resp.status) THEN "raise"
    ELSE "fallthrough"

\* self._add_tags_bulk(node_id, to_add)
AddTagsBulk ==
    /\ pc["bulk"] = "post"
    /\ \E resp \in PostResponses("bulk", node_id["bulk"], to_add) :
        /\ reqs' = [reqs EXCEPT !["bulk"] = Append(@, PostRequest(node_id["bulk"], to_add, resp))]
        /\ remote' = Attach("bulk", node_id["bulk"], resp.applied)
        /\ faultsLeft' = [faultsLeft EXCEPT !["bulk"] = IF IsFault(resp) THEN @ - 1 ELSE @]
        /\ pc' = [pc EXCEPT !["bulk"] =
                      IF add_tags_bulk_verdict(resp.r) = "raise" THEN "raised" ELSE "returned"]
    /\ UNCHANGED <<node_ref, tags, policy, baseline, node_id, idx, existing, to_add,
                   calls, othersLeft>>

----------------------------------------------------------------------------
(* The environment *)

\* Another actor attaches tag t to node n in the world of strategy s.  (Next
\* lets other actors touch the document only: an invocation neither reads nor
\* writes what they do to other nodes.)
OtherActor(s, n, t) ==
    /\ othersLeft[s] > 0
    /\ pc[s] # "off"
    /\ t \notin remote[s][n]
    /\ othersLeft' = [othersLeft EXCEPT ![s] = @ - 1]
    /\ remote' = Attach(s, n, {t})
    /\ baseline' = [baseline EXCEPT ![s] = [@ EXCEPT ![n] = @ \cup {t}]]
    /\ UNCHANGED <<node_ref, tags, policy, pc, node_id, idx, existing, to_add,
                   reqs, calls, faultsLeft>>

----------------------------------------------------------------------------
(* Specifications *)

\* What the inputs and the remote start as: the same in every world.
Inputs ==
    /\ node_ref \in NodeRefs
    /\ tags \in TagLists
    /\ \E start \in SUBSET Tags :
         /\ remote = [s \in Strategy |-> [n \in NodeIds |->
                          IF n = _extract_node_id(node_ref) THEN start ELSE {}]]
         /\ baseline = remote
    /\ node_id = [s \in Strategy |-> <<>>]
    /\ idx = 1
    /\ existing = {}
    /\ to_add = <<>>
    /\ reqs = [s \in Strategy |-> <<>>]
    /\ calls = [s \in Strategy |-> 0]

\* One strategy, called up to MaxCalls times, against a remote that answers
\* every well-formed request, may fail transiently, and is shared with other actors.
Init ==
    /\ Inputs
    /\ policy \in [reject : {{}}, strict : BOOLEAN, getOk : {TRUE}]
    /\ \E s \in Strategy :
         /\ pc = [t \in Strategy |-> IF t = s THEN "idle" ELSE "off"]
         /\ faultsLeft = [t \in Strategy |-> IF t = s THEN MaxFaults ELSE 0]
         /\ othersLeft = [t \in Strategy |-> IF t = s THEN MaxOthers ELSE 0]

Next ==
    \/ \E s \in Strategy : Call(s)
    \/ AddTag
    \/ GetExistingTags
    \/ AddTagsBulk
    \/ \E s \in Strategy, t \in Tags : OtherActor(s, Document, t)

Spec == Init /\ [][Next]_vars

\* Both strategies, one invocation each, side by side: the same inputs, the
\* same initial remote state, the same remote policy, no transient fault,
\* no other actor.
InitBoth ==
    /\ Inputs
    /\ policy \in [reject : SUBSET Tags, strict : BOOLEAN, getOk : BOOLEAN]
    /\ pc = [t \in Strategy |-> "idle"]
    /\ faultsLeft = [t \in Strategy |-> 0]
    /\ othersLeft = [t \in Strategy |-> 0]

CallOnce(s) == calls[s] = 0 /\ Call(s)

NextBoth ==
    \/ \E s \in Strategy : CallOnce(s)
    \/ AddTag
    \/ GetExistingTags
    \/ AddTagsBulk

SpecBoth == InitBoth /\ [][NextBoth]_vars

----------------------------------------------------------------------------
(* Vocabulary of the properties *)

Active(s) == pc[s] # "off"
Finished(s) == pc[s] \in {"returned", "raised"}
Last(s) == reqs[s][Len(reqs[s])]

\* An answer that is an error: none in time, or a 4xx/5xx status other than 409.
ErrorAnswer(x) == ~x.arrived \/ (x.status >= 400 /\ x.status < 600 /\ x.status # 409)

\* No transient fault and no other actor so far in the world of strategy s.
Undisturbed(s) == faultsLeft[s] = MaxFaults /\ othersLeft[s] = MaxOthers

Count(q, t) == Cardinality({ k \in 1..Len(q) : q[k] = t })

\* The create calls of the per-tag strategy for the first k tags: one per tag,
\* in input order, each to the document and with that tag alone as payload.
IsCreatePrefix(q, k) ==
    /\ Len(q) = k
    /\ k <= Len(tags)
    /\ \A j \in 1..k :
         /\ q[j].method = "POST"
         /\ q[j].node = Document
         /\ q[j].payload = << tags[j] >>

----------------------------------------------------------------------------
(* C1 *)

\* C1: under either strategy the response to a create-tag (POST) call is
\* classified by its status code alone: after a POST answered 200, 201 or 409
\* the invocation has not raised, and after a POST answered with any other
\* status code the invocation has raised.
C1_PostStatusDecides ==
    \A s \in Strategy :
        (reqs[s] # <<>> /\ Last(s).method = "POST" /\ Last(s).r.arrived) =>
            IF Last(s).r.status \in {200, 201, 409}
            THEN pc[s] # "raised"
            ELSE pc[s] = "raised"

----------------------------------------------------------------------------
(* C2 *)

\* C2: idempotence, under either strategy: when apply_tags(ref, tags) has been
\* called twice (or more) in succession, with no transient fault and no other
\* actor, the last call has returned without error and the document carries
\* every tag of the list.
C2_Idempotent ==
    \A s \in Strategy :
        (Active(s) /\ calls[s] >= 2 /\ Finished(s) /\ Undisturbed(s)) =>
            /\ pc[s] = "returned"
            /\ Range(tags) \subseteq remote[s][Document]

\* The second call of the per-tag strategy has returned after the remote
\* answered 409 to its last create call.
C2_Witness ==
    /\ calls["pertag"] = 2
    /\ pc["pertag"] = "returned"
    /\ Undisturbed("pertag")
    /\ policy.strict
    /\ Len(reqs["pertag"]) = Len(tags)
    /\ Len(tags) >= 2
    /\ \A k \in 1..Len(tags) : reqs["pertag"][k].r.status = 409

----------------------------------------------------------------------------
(* C3 *)

\* C3: in the bulk strategy, whatever other actors add between the read and
\* the write, an invocation that met no transient fault returns without
\* error and, once it has returned, the document carries every requested tag.
C3_RaceReconciled ==
    (Active("bulk") /\ Finished("bulk") /\ faultsLeft["bulk"] = MaxFaults) =>
        /\ pc["bulk"] = "returned"
        /\ Range(tags) \subseteq remote["bulk"][Document]

----------------------------------------------------------------------------
(* C4 *)

\* C4: per-tag partial failure: when the create call for the k-th tag is
\* answered with an error, the invocation has raised and that call is its last
\* one: the calls issued are the create calls for tags 1..k in input order and
\* no other (none for tags k+1..n), the calls before the k-th were not
\* answered with an error, and tags 1..k-1 are on the document.
C4_PartialFailure ==
    LET q == reqs["pertag"] IN
    \A k \in 1..Len(q) :
        ErrorAnswer(q[k].r) =>
            /\ pc["pertag"] = "raised"
            /\ k = Len(q)
            /\ IsCreatePrefix(q, k)
            /\ \A j \in 1..(k - 1) : tags[j] \in remote["pertag"][Document]

\* The create call for the 2nd of 3 tags was answered 500 after the 1st
\* succeeded; the 1st tag was not on the document before.
C4_Witness ==
    /\ pc["pertag"] = "raised"
    /\ Len(tags) = 3
    /\ Len(reqs["pertag"]) = 2
    /\ Last("pertag").r.status = 500
    /\ reqs["pertag"][1].r.status = 201
    /\ tags[1] \notin baseline["pertag"][Document]
    /\ tags[1] \in remote["pertag"][Document]

----------------------------------------------------------------------------
(* C5 *)

\* C5: in the bulk strategy an invocation with a non-empty tag list issues one
\* read call first and at most one write call after it; once it has finished,
\* exactly one read call was issued, and a write call was issued if and only
\* if the read succeeded and some requested tag is absent from the fetched set.
C5_OneReadAtMostOneWrite ==
    LET q == reqs["bulk"] IN
    /\ Len(q) <= 2
    /\ Len(q) >= 1 => q[1].method = "GET" /\ q[1].node = Document
    /\ Len(q) = 2 => q[2].method = "POST" /\ q[2].node = Document
    /\ (Finished("bulk") /\ tags # <<>>) =>
         /\ Len(q) >= 1
         /\ Len(q) = 2 <=>
              /\ q[1].r.arrived
              /\ q[1].r.status = 200
              /\ \E k \in 1..Len(tags) : tags[k] \notin q[1].body

\* The short-circuit: the read succeeded, the fetched set holds every
\* (of at least two distinct) requested tags, and the invocation has returned.
C5_Witness ==
    /\ pc["bulk"] = "returned"
    /\ Len(reqs["bulk"]) = 1
    /\ reqs["bulk"][1].r.status = 200
    /\ Cardinality(Range(tags)) >= 2
    /\ Range(tags) \subseteq reqs["bulk"][1].body

----------------------------------------------------------------------------
(* C6 *)

\* C6: per-tag strategy: at every moment the calls issued by the invocation
\* are the create calls for a prefix of the tag list, one single-tag call per
\* tag in input order (so no read call and no repeated call); when the
\* invocation has returned they are the create calls for the whole list.
C6_OneCreatePerTag ==
    /\ IsCreatePrefix(reqs["pertag"], Len(reqs["pertag"]))
    /\ (pc["pertag"] = "returned" /\ tags # <<>>) =>
         IsCreatePrefix(reqs["pertag"], Len(tags))

\* An invocation on a list of three tags that repeats a tag has returned.
C6_Witness ==
    /\ pc["pertag"] = "returned"
    /\ Len(tags) = 3
    /\ Cardinality(Range(tags)) = 2
    /\ Len(reqs["pertag"]) = 3

----------------------------------------------------------------------------
(* C7 *)

\* C7: bulk diff: the payload of the write call is the subsequence of the
\* input list made of the tags that are not in the fetched set, in input
\* order: no fetched tag is in it, and a tag absent from the fetched set is in
\* it as many times as in the input.
C7_PayloadIsDiff ==
    Len(reqs["bulk"]) = 2 =>
        LET fetched == reqs["bulk"][1].body
            payload == reqs["bulk"][2].payload
            absent(t) == t \notin fetched
        IN  /\ payload = SelectSeq(tags, absent)
            /\ Range(payload) \cap fetched = {}
            /\ \A t \in Tags \ fetched : Count(payload, t) = Count(tags, t)

\* A write call whose payload repeats a tag and leaves out a fetched one.
C7_Witness ==
    /\ Len(reqs["bulk"]) = 2
    /\ \E t \in Tags : Count(reqs["bulk"][2].payload, t) = 2
    /\ Range(tags) \cap reqs["bulk"][1].body # {}

----------------------------------------------------------------------------
(* C8 *)

\* C8: empty input, under either strategy: once apply_tags(ref, []) has been
\* called it has returned normally, has issued no request, and the remote is
\* what it would be without the invocation.
C8_EmptyIsNoop ==
    \A s \in Strategy :
        (Active(s) /\ tags = <<>> /\ calls[s] >= 1) =>
            /\ pc[s] = "returned"
            /\ reqs[s] = <<>>
            /\ remote[s] = baseline[s]

\* The bulk strategy has been called with the empty list on a document that
\* has tags.
C8_Witness ==
    /\ tags = <<>>
    /\ calls["bulk"] >= 1
    /\ pc["bulk"] = "returned"
    /\ remote["bulk"][Document] # {}

----------------------------------------------------------------------------
(* C9 *)

\* C9: bulk strategy: when the read call is answered with an error status (or
\* not at all), the invocation has raised, the read is its only request (no
\* write, no second read), and the remote is what it would be without the
\* invocation.
C9_ReadFailureAborts ==
    (reqs["bulk"] # <<>> /\ ErrorAnswer(reqs["bulk"][1].r)) =>
        /\ pc["bulk"] = "raised"
        /\ Len(reqs["bulk"]) = 1
        /\ reqs["bulk"][1].method = "GET"
        /\ remote["bulk"] = baseline["bulk"]

\* The read was answered 500 while a requested tag was missing on the document.
C9_Witness ==
    /\ pc["bulk"] = "raised"
    /\ Len(reqs["bulk"]) = 1
    /\ reqs["bulk"][1].r.status = 500
    /\ ~(Range(tags) \subseteq remote["bulk"][Document])

----------------------------------------------------------------------------
(* C10 *)

NoErrorAnswer(s) == \A k \in 1..Len(reqs[s]) : ~ErrorAnswer(reqs[s][k].r)

====
